---- MODULE Spec2Model ----
(***************************************************************************)
(* faust.serializers.registry.Registry: the four operations loads_key,     *)
(* loads_value, dumps_key, dumps_value, the helper _loads_model and the    *)
(* lazily cached Model property, called by one or several threads on one   *)
(* registry.                                                               *)
(*                                                                         *)
(* The codecs (loads, dumps), the coercion helpers (want_str, want_bytes), *)
(* the model classes and cached_property live outside registry.py; they    *)
(* are modelled by what they do to the abstract values below.              *)
(***************************************************************************)
EXTENDS Naturals, Sequences, FiniteSets, TLC

VARIABLES key_serializer, value_serializer, cache, pc, call, mdl, ret

vars == <<key_serializer, value_serializer, cache, pc, call, mdl, ret>>

(***************************************************************************)
(* Bounds.                                                                 *)
(***************************************************************************)
NumPayloads == 1
NumThreads == 2

Payloads == 1..NumPayloads
Threads == 1..NumThreads

(***************************************************************************)
(* Codec arguments, target types, model classes.                           *)
(***************************************************************************)
NoCodec == "None"
Codecs == {"json", "pickle"}
CodecArg == Codecs \cup {NoCodec}

NoType == "None"
ModelTypes == {"A", "B"}
TargetTypes == {NoType, "str", "bytes"} \cup ModelTypes

\* typ._options.serializer: class A declares no codec, class B declares pickle.
TypeSerializer(typ) == IF typ = "B" THEN "pickle" ELSE NoCodec

\* Python's `a or b` on codec arguments (None is the only falsy one).
Or(a, b) == IF a # NoCodec THEN a ELSE b

(***************************************************************************)
(* Python values.  A str and a bytes object hold a content; str.encode()   *)
(* and bytes.decode() keep the content and change the kind.  A content is  *)
(* plain text, the serialization of a value by a codec, or binary data     *)
(* that is not valid text.                                                 *)
(***************************************************************************)
None == [kind |-> "none"]
Lit(n) == [c |-> "lit", n |-> n]
Blob(n) == [c |-> "blob", n |-> n]
Enc(codec, v) == [c |-> "enc", codec |-> codec, body |-> v]
Str(content) == [kind |-> "str", text |-> content]
Bytes(content) == [kind |-> "bytes", text |-> content]
\* A mapping; ns is the model class named by its __faust tag, "-" without tag.
Dict(ns, n) == [kind |-> "dict", ns |-> ns, data |-> n]
ModelInst(typ, n) == [kind |-> "model", typ |-> typ, data |-> n]

IsModel(v) == v.kind = "model"
IsInstance(v, kinds) == v.kind \in kinds

Primitives ==
    {None} \cup {Str(Lit(n)) : n \in Payloads}
           \cup {Dict(ns, n) : ns \in ModelTypes \cup {"-"}, n \in Payloads}
ModelInstances == {ModelInst(typ, n) : typ \in ModelTypes, n \in Payloads}
ByteStrings ==
    {Bytes(Lit(n)) : n \in Payloads} \cup {Bytes(Blob(n)) : n \in Payloads}
        \cup {Bytes(Enc(codec, v)) : codec \in Codecs, v \in Primitives}

(***************************************************************************)
(* Exceptions and the outcome of a call.                                   *)
(***************************************************************************)
NoCause == [type |-> "none"]
NoExc == [type |-> "none", msg |-> "", cause |-> NoCause]
Exc(type, msg) == [type |-> type, msg |-> msg, cause |-> NoCause]

Ok(v) == [raised |-> FALSE, val |-> v, exc |-> NoExc]
Err(type, msg) == [raised |-> TRUE, val |-> None, exc |-> Exc(type, msg)]

\* One entry of the record of what a call did, in order.
L(fn, arg) == [fn |-> fn, arg |-> arg]
Ret(v, log) == [raised |-> FALSE, val |-> v, exc |-> NoExc, log |-> log]
Raise(e, log) == [raised |-> TRUE, val |-> None, exc |-> e, log |-> log]
Seal(r, log) == [raised |-> r.raised, val |-> r.val, exc |-> r.exc, log |-> log]

(***************************************************************************)
(* What the environment may do to a decode call: make one of its steps     *)
(* fail, with an ordinary exception or with MemoryError.                   *)
(***************************************************************************)
NoFault == [step |-> "none", kind |-> "none"]
FaultSteps == {"loads", "reconstruct", "coerce", "construct"}
FaultKinds == {"RuntimeError", "MemoryError"}
Faults == {NoFault} \cup [step : FaultSteps, kind : FaultKinds]

Hit(f, step) == f.step = step
Fail(f) == Err(f.kind, "injected")

(***************************************************************************)
(* The capabilities the registry consumes.                                 *)
(***************************************************************************)
\* codecs.loads: no codec leaves the data as it is; a codec decodes what it
\* encoded and fails on anything else.  A model instance handed to a codec
\* decodes to its tagged primitive form.
loads(codec, data, f) ==
    IF Hit(f, "loads") THEN Fail(f)
    ELSE IF codec = NoCodec THEN Ok(data)
    ELSE IF IsModel(data) THEN Ok(Dict(data.typ, data.data))
    ELSE IF data.kind = "bytes" /\ data.text.c = "enc" /\ data.text.codec = codec
         THEN Ok(data.text.body)
    ELSE IF data.kind = "bytes" THEN Err("DecodeError", "not in codec format")
    ELSE Err("TypeError", "not bytes")

\* codecs.dumps: no codec leaves the value as it is; json cannot encode bytes.
dumps(codec, v) ==
    IF codec = NoCodec THEN Ok(v)
    ELSE IF codec = "json" /\ v.kind = "bytes"
         THEN Err("TypeError", "not serializable")
    ELSE Ok(Bytes(Enc(codec, v)))

\* ModelT.dumps(serializer=...): the tagged primitive form, encoded.
model_dumps(m, serializer) ==
    dumps(Or(serializer, TypeSerializer(m.typ)), Dict(m.typ, m.data))

\* compat.want_bytes: a str is encoded, anything else is returned as it is.
want_bytes(v, f) ==
    IF Hit(f, "coerce") THEN Fail(f)
    ELSE IF v.kind = "str" THEN Ok(Bytes(v.text))
    ELSE Ok(v)

\* compat.want_str: bytes are decoded, anything else is returned as it is.
want_str(v, f) ==
    IF Hit(f, "coerce") THEN Fail(f)
    ELSE IF v.kind = "bytes" /\ v.text.c = "blob"
         THEN Err("UnicodeDecodeError", "invalid start byte")
    ELSE IF v.kind = "bytes" THEN Ok(Str(v.text))
    ELSE Ok(v)

\* typ(data): a model class builds an instance from a mapping.
Construct(typ, v, f) ==
    IF Hit(f, "construct") THEN Fail(f)
    ELSE IF v.kind = "dict" THEN Ok(ModelInst(typ, v.data))
    ELSE Err("TypeError", "not a mapping")

\* Model._maybe_namespace: the class a mapping's tag names, if any.
_maybe_namespace(v, f) ==
    IF Hit(f, "reconstruct") THEN Fail(f)
    ELSE IF v.kind = "dict" /\ v.ns \in ModelTypes THEN Ok(v.ns)
    ELSE Ok(NoType)

\* Model._maybe_reconstruct: a tagged mapping becomes an instance of the
\* class its tag names; anything else is returned as it is.
_maybe_reconstruct(v, f) ==
    IF Hit(f, "reconstruct") THEN Fail(f)
    ELSE IF v.kind = "dict" /\ v.ns \in ModelTypes
         THEN Ok(ModelInst(v.ns, v.data))
    ELSE Ok(v)

(***************************************************************************)
(* Registry.  self.key_serializer and self.value_serializer are the state  *)
(* variables key_serializer and value_serializer.                          *)
(***************************************************************************)
\* Registry._loads
_loads(serializer, data, f) == loads(serializer, data, f)

\* Registry._loads_model.  typ._options fails on a typ that is no model class.
_loads_model(typ, default_serializer, data, f) ==
    IF typ \notin ModelTypes
    THEN Raise(Exc("AttributeError", "no attribute _options"), <<>>)
    ELSE
    LET ser == Or(TypeSerializer(typ), default_serializer)
        d == _loads(ser, data, f)
        log1 == <<L("loads", ser)>>
        ns == _maybe_namespace(d.val, f)
        log2 == log1 \o <<L("self.Model", ""), L("_maybe_namespace", "")>>
        self_cls == IF ns.val # NoType THEN ns.val ELSE typ
    IN  IF d.raised THEN Raise(d.exc, log1)
        ELSE IF ns.raised THEN Raise(ns.exc, log2)
        ELSE Seal(Construct(self_cls, d.val, f),
                  log2 \o <<L("construct", self_cls)>>)

\* Faulty variant of loads_key_serializer: the other channel's default.
loads_key_serializer_value(serializer) == Or(serializer, value_serializer)

\* loads_key: serializer = serializer or self.key_serializer
loads_key_serializer(serializer) == Or(serializer, key_serializer)

\* Faulty variant of loads_key_coerce: a model class is applied to k even
\* when k is a model instance already.
loads_key_coerce_always(typ, k, log, f) ==
    IF typ # NoType
    THEN IF typ = "str"
         THEN Seal(want_str(k, f), log \o <<L("want_str", "")>>)
         ELSE IF typ = "bytes"
         THEN Seal(want_bytes(k, f), log \o <<L("want_bytes", "")>>)
         ELSE Seal(Construct(typ, k, f), log \o <<L("construct", typ)>>)
    ELSE Ret(k, log)

\* loads_key: the coercion of the decoded key k to typ.
loads_key_coerce(typ, k, log, f) ==
    IF typ # NoType
    THEN IF typ = "str"
         THEN Seal(want_str(k, f), log \o <<L("want_str", "")>>)
         ELSE IF typ = "bytes"
         THEN Seal(want_bytes(k, f), log \o <<L("want_bytes", "")>>)
         ELSE IF ~IsModel(k)
         THEN Seal(Construct(typ, k, f), log \o <<L("construct", typ)>>)
         ELSE Ret(k, log)
    ELSE Ret(k, log)

\* loads_key: the body of the try statement.
loads_key_try(typ, key, serializer, f) ==
    IF IsModel(key) THEN _loads_model(typ, serializer, key, f)
    ELSE
    LET d == _loads(serializer, key, f)
        log1 == <<L("self.Model", ""), L("loads", serializer)>>
        k == _maybe_reconstruct(d.val, f)
        log2 == log1 \o <<L("_maybe_reconstruct", "")>>
    IN  IF d.raised THEN Raise(d.exc, log1)
        ELSE IF k.raised THEN Raise(k.exc, log2)
        ELSE loads_key_coerce(typ, k.val, log2, f)

\* Faulty variant of loads_key_except: MemoryError is wrapped like the rest.
loads_key_except_all(r) ==
    IF ~r.raised THEN r
    ELSE Raise([type |-> "KeyDecodeError", msg |-> r.exc.msg, cause |-> r.exc],
               r.log)

\* loads_key: the except clauses.
loads_key_except(r) ==
    IF ~r.raised THEN r
    ELSE IF r.exc.type = "MemoryError" THEN r
    ELSE Raise([type |-> "KeyDecodeError", msg |-> r.exc.msg, cause |-> r.exc],
               r.log)

\* Registry.loads_key
loads_key(typ, key, serializer, f) ==
    IF key = None THEN Ret(key, <<>>)
    ELSE loads_key_except(
             loads_key_try(typ, key, loads_key_serializer(serializer), f))

\* Faulty variant of loads_value_serializer: the other channel's default.
loads_value_serializer_key(serializer) == Or(serializer, key_serializer)

\* loads_value: serializer = serializer or self.value_serializer
loads_value_serializer(serializer) == Or(serializer, value_serializer)

\* loads_value: typ = bytes if typ is None else typ
loads_value_typ(typ) == IF typ = NoType THEN "bytes" ELSE typ

\* loads_value: the coercion of the decoded value v to typ.
loads_value_coerce(typ, v, log, f) ==
    IF typ # NoType
    THEN IF typ = "str"
         THEN Seal(want_str(v, f), log \o <<L("want_str", "")>>)
         ELSE IF typ = "bytes"
         THEN Seal(want_bytes(v, f), log \o <<L("want_bytes", "")>>)
         ELSE IF ~IsModel(v)
         THEN Seal(Construct(typ, v, f), log \o <<L("construct", typ)>>)
         ELSE Ret(v, log)
    ELSE Ret(v, log)

\* loads_value: the body of the try statement.
loads_value_try(typ, value, serializer, f) ==
    IF IsModel(value) THEN _loads_model(typ, serializer, value, f)
    ELSE
    LET d == _loads(serializer, value, f)
        log1 == <<L("self.Model", ""), L("loads", serializer)>>
        v == _maybe_reconstruct(d.val, f)
        log2 == log1 \o <<L("_maybe_reconstruct", "")>>
    IN  IF d.raised THEN Raise(d.exc, log1)
        ELSE IF v.raised THEN Raise(v.exc, log2)
        ELSE loads_value_coerce(loads_value_typ(typ), v.val, log2, f)

\* loads_value: the except clauses.
loads_value_except(r) ==
    IF ~r.raised THEN r
    ELSE IF r.exc.type = "MemoryError" THEN r
    ELSE Raise([type |-> "ValueDecodeError", msg |-> r.exc.msg, cause |-> r.exc],
               r.log)

\* Faulty variant of loads_value: no early return on None.
loads_value_unguarded(typ, value, serializer, f) ==
    loads_value_except(
        loads_value_try(typ, value, loads_value_serializer(serializer), f))

\* Registry.loads_value
loads_value(typ, value, serializer, f) ==
    IF value = None THEN Ret(None, <<>>)
    ELSE loads_value_except(
             loads_value_try(typ, value, loads_value_serializer(serializer), f))

\* Variant of dumps_key_serializer that honours the serializer argument.
dumps_key_serializer_override(key, serializer) ==
    LET ser0 == Or(serializer, key_serializer)
    IN  IF IsModel(key) THEN Or(TypeSerializer(key.typ), ser0) ELSE ser0

\* dumps_key: the codec it resolves.  The argument is overwritten on entry.
dumps_key_serializer(key, serializer) ==
    LET ser0 == key_serializer
    IN  IF IsModel(key) THEN Or(TypeSerializer(key.typ), ser0) ELSE ser0

\* dumps_key: encode with the resolved codec, or pass through.
dumps_key_encode(serializer, key, skip) ==
    IF serializer # NoCodec /\ ~IsInstance(key, skip)
    THEN IF IsModel(key)
         THEN Seal(model_dumps(key, serializer), <<L("model.dumps", serializer)>>)
         ELSE Seal(dumps(serializer, key), <<L("dumps", serializer)>>)
    ELSE IF key # None
         THEN Seal(want_bytes(key, NoFault), <<L("want_bytes", "")>>)
         ELSE Ret(None, <<>>)

\* Registry.dumps_key
dumps_key(key, serializer, skip) ==
    dumps_key_encode(dumps_key_serializer(key, serializer), key, skip)

\* dumps_value: the codec it resolves.
dumps_value_serializer(value, serializer) ==
    LET ser0 == Or(serializer, value_serializer)
    IN  IF IsModel(value) THEN Or(TypeSerializer(value.typ), ser0) ELSE ser0

\* dumps_value: encode with the resolved codec, or pass through.
dumps_value_encode(serializer, value, skip) ==
    IF serializer # NoCodec /\ ~IsInstance(value, skip)
    THEN IF IsModel(value)
         THEN Seal(model_dumps(value, serializer), <<L("model.dumps", serializer)>>)
         ELSE Seal(dumps(serializer, value), <<L("dumps", serializer)>>)
    ELSE Ret(value, <<>>)

\* Faulty variant of dumps_value: the skip types are not consulted.
dumps_value_noskip(value, serializer, skip) ==
    dumps_value_encode(dumps_value_serializer(value, serializer), value, {})

\* Registry.dumps_value
dumps_value(value, serializer, skip) ==
    dumps_value_encode(dumps_value_serializer(value, serializer), value, skip)

\* Faulty variant of Model: a computation that gives another object once
\* the cache is filled.
ModelReimported ==
    IF cache = "unset" THEN "faust.models.base.Model"
    ELSE "faust.models.base.Model (reloaded)"

\* Registry.Model: the body of the cached property.
Model == "faust.models.base.Model"

(***************************************************************************)
(* Calls.  A thread enters a call with its arguments, reads self.Model     *)
(* where the call gets that far, and returns or raises.                    *)
(***************************************************************************)
Unset == "unset"
DefaultSkip == {"bytes"}
Skips == {DefaultSkip, {}}

NoPrev == [op |-> "none"]
NoCall == [op |-> "none"]
NoRet == [raised |-> FALSE, val |-> None, exc |-> NoExc, log |-> <<>>]

DecodeOps == {"loads_key", "loads_value"}
EncodeOps == {"dumps_key", "dumps_value"}

\* prev: the encode call whose result is being decoded, if any.
DecodeCalls ==
    [op : DecodeOps, typ : TargetTypes,
     data : {None} \cup ByteStrings \cup ModelInstances,
     serializer : CodecArg, skip : {DefaultSkip}, f : Faults, prev : {NoPrev}]
EncodeCalls ==
    [op : EncodeOps, typ : {NoType},
     data : Primitives \cup ByteStrings \cup ModelInstances,
     serializer : CodecArg, skip : Skips, f : {NoFault}, prev : {NoPrev}]

DecodeCall(op, typ, data, f) ==
    [op |-> op, typ |-> typ, data |-> data, serializer |-> NoCodec,
     skip |-> DefaultSkip, f |-> f, prev |-> NoPrev]
EncodeCall(op, data) ==
    [op |-> op, typ |-> NoType, data |-> data, serializer |-> "json",
     skip |-> DefaultSkip, f |-> NoFault, prev |-> NoPrev]

\* The calls concurrent threads make: one of each path through the code.
ConcCalls ==
    {DecodeCall("loads_key", NoType, None, NoFault),
     DecodeCall("loads_key", "A", Bytes(Enc("json", Dict("A", 1))), NoFault),
     DecodeCall("loads_value", "A", Bytes(Enc("json", Dict("A", 1))),
                [step |-> "loads", kind |-> "MemoryError"]),
     DecodeCall("loads_value", "B", ModelInst("A", 1), NoFault),
     EncodeCall("dumps_key", ModelInst("A", 1)),
     EncodeCall("dumps_value", Str(Lit(1)))}

Run(c) ==
    CASE c.op = "loads_key" -> loads_key(c.typ, c.data, c.serializer, c.f)
      [] c.op = "loads_value" -> loads_value(c.typ, c.data, c.serializer, c.f)
      [] c.op = "dumps_key" -> dumps_key(c.data, c.serializer, c.skip)
      [] c.op = "dumps_value" -> dumps_value(c.data, c.serializer, c.skip)

Did(log, fns) == \E i \in 1..Len(log) : log[i].fn \in fns
NeedsModel(c) == Did(Run(c).log, {"self.Model"})

Enter(t, c) ==
    /\ call' = [call EXCEPT ![t] = c]
    /\ pc' = [pc EXCEPT ![t] = IF NeedsModel(c) THEN "lookup" ELSE "ready"]
    /\ mdl' = [mdl EXCEPT ![t] = Unset]
    /\ ret' = [ret EXCEPT ![t] = NoRet]
    /\ UNCHANGED <<key_serializer, value_serializer, cache>>

\* A thread calls one of the four operations.
Call(t, calls) ==
    /\ pc[t] = "idle"
    /\ \E c \in calls : Enter(t, c)

\* A thread decodes what its encode call returned, on the same channel.
RoundTrip(t) ==
    /\ pc[t] = "done"
    /\ call[t].op \in EncodeOps
    /\ ~ret[t].raised
    /\ \E typ \in TargetTypes, serializer \in CodecArg :
          Enter(t, [op |-> IF call[t].op = "dumps_key" THEN "loads_key"
                           ELSE "loads_value",
                    typ |-> typ, data |-> ret[t].val, serializer |-> serializer,
                    skip |-> DefaultSkip, f |-> NoFault,
                    prev |-> [op |-> call[t].op, data |-> call[t].data,
                              serializer |-> call[t].serializer,
                              skip |-> call[t].skip]])

\* cached_property.__get__: the value in the instance's __dict__, if there.
Lookup(t) ==
    /\ pc[t] = "lookup"
    /\ IF cache # Unset
       THEN /\ mdl' = [mdl EXCEPT ![t] = cache]
            /\ pc' = [pc EXCEPT ![t] = "ready"]
       ELSE /\ pc' = [pc EXCEPT ![t] = "resolve"]
            /\ UNCHANGED mdl
    /\ UNCHANGED <<key_serializer, value_serializer, cache, call, ret>>

\* cached_property.__get__ on a miss: compute, store, return.
Resolve(t) ==
    /\ pc[t] = "resolve"
    /\ cache' = Model
    /\ mdl' = [mdl EXCEPT ![t] = Model]
    /\ pc' = [pc EXCEPT ![t] = "ready"]
    /\ UNCHANGED <<key_serializer, value_serializer, call, ret>>

\* The call returns or raises.
Return(t) ==
    /\ pc[t] = "ready"
    /\ ret' = [ret EXCEPT ![t] = Run(call[t])]
    /\ pc' = [pc EXCEPT ![t] = "done"]
    /\ UNCHANGED <<key_serializer, value_serializer, cache, call, mdl>>

\* The caller drops the outcome and is free to call again.
Reset(t) ==
    /\ pc[t] = "done"
    /\ pc' = [pc EXCEPT ![t] = "idle"]
    /\ call' = [call EXCEPT ![t] = NoCall]
    /\ mdl' = [mdl EXCEPT ![t] = Unset]
    /\ ret' = [ret EXCEPT ![t] = NoRet]
    /\ UNCHANGED <<key_serializer, value_serializer, cache>>

\* Registry.__init__
Init ==
    /\ key_serializer \in CodecArg
    /\ value_serializer \in CodecArg
    /\ cache = Unset
    /\ pc = [t \in Threads |-> "idle"]
    /\ call = [t \in Threads |-> NoCall]
    /\ mdl = [t \in Threads |-> Unset]
    /\ ret = [t \in Threads |-> NoRet]

\* One caller, every call.
Next ==
    \E t \in {1} :
        \/ Call(t, DecodeCalls \cup EncodeCalls)
        \/ RoundTrip(t)
        \/ Lookup(t)
        \/ Resolve(t)
        \/ Return(t)
        \/ Reset(t)

Spec == Init /\ [][Next]_vars

\* Several callers at once.
NextConc ==
    \E t \in Threads :
        \/ Call(t, ConcCalls)
        \/ Lookup(t)
        \/ Resolve(t)
        \/ Return(t)
        \/ Reset(t)

SpecConc == Init /\ [][NextConc]_vars

(***************************************************************************)
(* Properties.                                                             *)
(***************************************************************************)
Done(t) == pc[t] = "done"
ChannelDefault(op) ==
    IF op \in {"loads_key", "dumps_key"} THEN key_serializer ELSE value_serializer
ChannelError(op) ==
    IF op = "loads_key" THEN "KeyDecodeError" ELSE "ValueDecodeError"

\* The step of a decode call that an entry of its log belongs to.
StepOf(fn) ==
    CASE fn = "loads" -> "loads"
      [] fn \in {"_maybe_reconstruct", "_maybe_namespace"} -> "reconstruct"
      [] fn \in {"want_str", "want_bytes"} -> "coerce"
      [] fn = "construct" -> "construct"
      [] OTHER -> "none"

\* The call of thread t reached the step the environment makes fail.
Faulted(t) ==
    /\ call[t].f # NoFault
    /\ \E i \in 1..Len(ret[t].log) : StepOf(ret[t].log[i].fn) = call[t].f.step

\* C1: a decode call on a non-None input in which a step raises an exception
\* other than MemoryError raises the channel's error (KeyDecodeError from
\* loads_key, ValueDecodeError from loads_value) with the original message
\* and the original failure as its cause; a MemoryError propagates unwrapped.
C1_ErrorClassification ==
    \A t \in Threads :
        Done(t) /\ call[t].op \in DecodeOps =>
            /\ Faulted(t) /\ call[t].f.kind = "MemoryError" =>
                  ret[t].raised /\ ret[t].exc = Exc("MemoryError", "injected")
            /\ Faulted(t) /\ call[t].f.kind # "MemoryError" =>
                  /\ ret[t].raised
                  /\ ret[t].exc = [type |-> ChannelError(call[t].op),
                                   msg |-> "injected",
                                   cause |-> Exc(call[t].f.kind, "injected")]
            /\ ret[t].raised =>
                  \/ ret[t].exc.type = "MemoryError" /\ ret[t].exc.cause = NoCause
                  \/ /\ ret[t].exc.type = ChannelError(call[t].op)
                     /\ ret[t].exc.cause.type \notin
                            {"none", "MemoryError", "KeyDecodeError",
                             "ValueDecodeError"}
                     /\ ret[t].exc.msg = ret[t].exc.cause.msg

C1_Witness ==
    \E t \in Threads :
        /\ Done(t) /\ call[t].op = "loads_key" /\ Faulted(t)
        /\ call[t].f = [step |-> "construct", kind |-> "RuntimeError"]
        /\ ret[t].exc.type = "KeyDecodeError"

\* C2: loads_key and loads_value on None return None, for every target type,
\* override and failing capability, before any codec, reconstruction or
\* coercion step and before self.Model is read.
C2_NoneShortCircuit ==
    \A t \in Threads :
        Done(t) /\ call[t].op \in DecodeOps /\ call[t].data = None =>
            /\ ~ret[t].raised
            /\ ret[t].val = None
            /\ ret[t].log = <<>>
            /\ mdl[t] = Unset

C2_Witness ==
    \E t \in Threads :
        /\ Done(t) /\ call[t].op = "loads_value" /\ call[t].data = None
        /\ call[t].typ = "A" /\ call[t].serializer = "json"
        /\ call[t].f = [step |-> "loads", kind |-> "RuntimeError"]
        /\ ret[t].val = None

\* C3: a model instance passed to dumps_key or dumps_value is serialized with
\* its class's declared codec, else the per-call override, else the channel
\* default.
C3_ModelCodecPrecedence ==
    \A t \in Threads :
        Done(t) /\ call[t].op \in EncodeOps /\ IsModel(call[t].data) =>
            LET own == TypeSerializer(call[t].data.typ)
                chosen == IF own # NoCodec THEN own
                          ELSE IF call[t].serializer # NoCodec
                               THEN call[t].serializer
                               ELSE ChannelDefault(call[t].op)
            IN  chosen # NoCodec =>
                    /\ ret[t].log = <<L("model.dumps", chosen)>>
                    /\ ret[t].val = Bytes(Enc(chosen, Dict(call[t].data.typ,
                                                           call[t].data.data)))

C5_BytesPassThrough ==
    \A t \in Threads :
        /\ Done(t) /\ call[t].op \in EncodeOps
        /\ call[t].data.kind = "bytes" /\ call[t].skip = DefaultSkip
        => /\ ~ret[t].raised
           /\ ret[t].val = call[t].data
           /\ ~Did(ret[t].log, {"dumps", "model.dumps"})

C5_Witness ==
    \E t \in Threads :
        /\ Done(t) /\ call[t].op = "dumps_value"
        /\ call[t].data = Bytes(Lit(1)) /\ call[t].skip = DefaultSkip
        /\ value_serializer = "json" /\ call[t].serializer = "pickle"
        /\ ret[t].val = Bytes(Lit(1))

\* The round trip of C6: loads_key(type(m), dumps_key(m, C)) for a model
\* instance m whose class declares no codec and a codec C.
KeyRoundTrip(t) ==
    /\ Done(t) /\ call[t].op = "loads_key" /\ call[t].prev.op = "dumps_key"
    /\ IsModel(call[t].prev.data)
    /\ TypeSerializer(call[t].prev.data.typ) = NoCodec
    /\ call[t].prev.serializer # NoCodec
    /\ call[t].prev.skip = DefaultSkip
    /\ call[t].typ = call[t].prev.data.typ
    /\ call[t].serializer = NoCodec

TagMismatch(t, a, n) ==
    /\ Done(t) /\ call[t].op \in DecodeOps
    /\ call[t].typ \in ModelTypes \ {a}
    /\ \/ call[t].data = Bytes(Enc(Or(call[t].serializer,
                                      ChannelDefault(call[t].op)),
                                   Dict(a, n)))
       \/ /\ call[t].data = ModelInst(a, n)
          /\ Or(TypeSerializer(call[t].typ),
                Or(call[t].serializer, ChannelDefault(call[t].op))) # NoCodec

\* C7: decoding data whose decoded form is tagged as model class A while
\* asking for another model class B gives an instance of A, and B's
\* constructor is never applied; also on the path through _loads_model.
C7_TagOverridesTarget ==
    \A t \in Threads, a \in ModelTypes, n \in Payloads :
        TagMismatch(t, a, n) =>
            /\ \A i \in 1..Len(ret[t].log) :
                   ret[t].log[i] # L("construct", call[t].typ)
            /\ ~ret[t].raised => ret[t].val = ModelInst(a, n)
            /\ call[t].f = NoFault => ~ret[t].raised

C7_Witness ==
    \E t \in Threads :
        /\ TagMismatch(t, "A", 1) /\ call[t].op = "loads_key"
        /\ call[t].typ = "B" /\ call[t].data.kind = "bytes"
        /\ ret[t].val = ModelInst("A", 1)

\* dumps_value({"a":1}) with no override and the default skip types.
JsonEncode(c) ==
    /\ c.op = "dumps_value" /\ c.data.kind = "dict" /\ c.data.ns = "-"
    /\ c.serializer = NoCodec /\ c.skip = DefaultSkip

C9_PassthroughCoerces ==
    \A t \in Threads :
        /\ Done(t) /\ call[t].op = "dumps_value"
        /\ ~Did(ret[t].log, {"dumps", "model.dumps"})
        => /\ ~ret[t].raised
           /\ ret[t].val = IF call[t].data.kind = "str"
                           THEN Bytes(call[t].data.text)
                           ELSE call[t].data

\* C10: whatever calls run concurrently and however they end, the registry's
\* defaults never change, the cached Model reference never changes once it
\* is set, and every read of self.Model returns the cached value.
C10_RegistryStable ==
    [][/\ key_serializer' = key_serializer
       /\ value_serializer' = value_serializer
       /\ cache # Unset => cache' = cache
       /\ \A t \in Threads : mdl'[t] # Unset => mdl'[t] = cache']_vars

C10_Witness ==
    \E t1, t2 \in Threads :
        /\ t1 # t2
        /\ pc[t1] = "resolve" /\ cache # Unset
        /\ Done(t2) /\ mdl[t2] = cache /\ ret[t2].raised

====
